---------------------------- MODULE Spec2Model ----------------------------
(***************************************************************************)
(* Model of OllamaBenchmark (llm_backend/app/test/ollama_benchmark.py):    *)
(* the fixed-concurrency round runner test_concurrent_requests with its    *)
(* semaphore gate, the probe single_request, the health monitor            *)
(* check_system_health, the adaptive search find_max_concurrency, and the  *)
(* program main with the model preparation and the unload of the model.    *)
(*                                                                         *)
(* Four specifications:                                                    *)
(*   Spec       : find_max_concurrency called on its own                   *)
(*   SpecFair   : the same under fairness, every call returning            *)
(*   SpecMain   : main, which runs the search with the same code on a      *)
(*                smaller budget of probes                                 *)
(*   SpecHealth : check_system_health called on given readings             *)
(*                                                                         *)
(* Python floats are modelled as exact rationals <<num, den>> kept in      *)
(* lowest terms with den > 0 (rounding error is not modelled).             *)
(* The wall clock is counted in ticks of one probe cooldown (0.5 s).       *)
(***************************************************************************)
EXTENDS Integers, Sequences, FiniteSets, TLC

(***************************************************************************)
(* Bounds of the model.                                                    *)
(***************************************************************************)
\* largest value given to the parameters start_concurrent / max_concurrent
MaxConcurrent == 4
\* largest value given to the parameter requests_per_test
MaxRequests == 3
\* largest number of probes a search is given to issue:
\* (max_concurrent - start_concurrent + 1) * requests_per_test
MaxProbes == 6

(***************************************************************************)
(* Program constants.                                                      *)
(***************************************************************************)
\* nanoseconds per second: the divisor / factor 1e9
NsPerSec == 1000000000
\* ticks per second: one tick is the 0.5 s cooldown of bounded_request
TicksPerSecond == 2
\* the cooldown asyncio.sleep(0.5) of bounded_request, in ticks
CooldownTicks == 1
\* hard health threshold (percent) of check_system_health
HardLimit == 90
\* consecutive empty rounds that stop the search
MaxConsecutiveFailures == 2

(***************************************************************************)
(* Exact rational arithmetic standing for float arithmetic.                *)
(***************************************************************************)
Abs(x) == IF x < 0 THEN -x ELSE x

\* Operators take their arguments by name; the arithmetic below goes through
\* functions, whose argument is evaluated once, so that a sum of n terms is
\* evaluated in time linear in n.

\* Euclid's algorithm on a pair of naturals
Euclid[p \in Nat \X Nat] == IF p[2] = 0 THEN p[1] ELSE Euclid[<<p[2], p[1] % p[2]>>]
GCD(a, b) == Euclid[<<a, b>>]

\* the pair p[1] / p[2] in lowest terms, with a positive denominator
Lowest[p \in Int \X Int] ==
    LET g == GCD(Abs(p[1]), Abs(p[2]))
        s == IF p[2] < 0 THEN -1 ELSE 1
    IN  <<(s * p[1]) \div g, (s * p[2]) \div g>>

\* the rational n / d in lowest terms, d # 0
Rat(n, d) == Lowest[<<n, d>>]

Zero == <<0, 1>>
RInt(n) == <<n, 1>>

\* sum of the pair p of rationals
Plus[p \in (Int \X Int) \X (Int \X Int)] ==
    Rat(p[1][1] * p[2][2] + p[2][1] * p[1][2], p[1][2] * p[2][2])
RAdd(a, b) == Plus[<<a, b>>]

\* product of the pair p of rationals, cancelling across before multiplying
\* so that values stay small
Times[p \in (Int \X Int) \X (Int \X Int)] ==
    LET g1 == GCD(Abs(p[1][1]), p[2][2])
        g2 == GCD(Abs(p[2][1]), p[1][2])
    IN  Rat((p[1][1] \div g1) * (p[2][1] \div g2), (p[1][2] \div g2) * (p[2][2] \div g1))
RMul(a, b) == Times[<<a, b>>]
\* quotient a / b, b # 0
RDiv(a, b) == RMul(a, Rat(b[2], b[1]))
RLt(a, b) == a[1] * b[2] < b[1] * a[2]
RLe(a, b) == a[1] * b[2] <= b[1] * a[2]
RGt(a, b) == RLt(b, a)
RGe(a, b) == RLe(b, a)

RECURSIVE RSum(_)
RSum(s) == IF s = <<>> THEN Zero ELSE RAdd(Head(s), RSum(Tail(s)))

RECURSIVE ISum(_)
ISum(s) == IF s = <<>> THEN 0 ELSE Head(s) + ISum(Tail(s))

\* [f(x) for x in s]
RECURSIVE MapField(_, _)
MapField(s, k) == IF s = <<>> THEN <<>> ELSE <<Head(s)[k]>> \o MapField(Tail(s), k)

\* Python's None
None == [type |-> "NoneType"]
IsNone(x) == "type" \in DOMAIN x

\* Python's {}
EmptyDict == <<>>

\* dict.get(key, default)
Get(d, key, default) == IF key \in DOMAIN d THEN d[key] ELSE default

(***************************************************************************)
(* The server's possible answers to POST /api/generate.                    *)
(*   raises = TRUE : the post or response.json() raises; body.error names  *)
(*                   the exception class                                   *)
(*   otherwise     : HTTP status and the decoded JSON body                 *)
(***************************************************************************)
\* the connection fails: aiohttp.ClientError
ReplyRaises == [raises |-> TRUE, status |-> 0, body |-> [error |-> "ClientError"]]
\* the body is not JSON: response.json() raises aiohttp.ContentTypeError
ReplyNotJson == [raises |-> TRUE, status |-> 502, body |-> [error |-> "ContentTypeError"]]
ReplyFast ==
    [raises |-> FALSE, status |-> 200,
     body |-> [eval_count |-> 1, eval_duration |-> NsPerSec, total_duration |-> NsPerSec]]
ReplySlow ==
    [raises |-> FALSE, status |-> 200,
     body |-> [eval_count |-> 1, eval_duration |-> 2 * NsPerSec, total_duration |-> 2 * NsPerSec]]
\* the server refuses the request with a JSON error body
ReplyHttpError ==
    [raises |-> FALSE, status |-> 500, body |-> [error |-> "internal error"]]
Replies == {ReplyRaises, ReplyNotJson, ReplyFast, ReplySlow, ReplyHttpError}

(***************************************************************************)
(* single_request: one probe, from the server's reply to the Probe Result. *)
(***************************************************************************)
\* mutant: only connection errors are caught
Catches_TransportOnly(error) == error = "ClientError"

\* line 124: "except Exception" catches every exception of the request
Catches(error) == error \in {"ClientError", "ContentTypeError"}

\* an exception that leaves single_request
Uncaught(error) == [success |-> FALSE, error |-> error, raised |-> TRUE]
Raised(r) == "raised" \in DOMAIN r

single_request(reply) ==
    IF reply.raises
    THEN IF Catches(reply.body.error)
         THEN [success |-> FALSE, error |-> reply.body.error]
         ELSE Uncaught(reply.body.error)
    ELSE LET result == reply.body
             eval_count == Get(result, "eval_count", 0)
             eval_duration == Get(result, "eval_duration", 0)
             total_duration == Get(result, "total_duration", 0)
             tokens_per_second ==
                 IF eval_duration > 0
                 THEN RMul(Rat(eval_count, eval_duration), RInt(NsPerSec))
                 ELSE Zero
         IN  [success |-> TRUE,
              eval_count |-> eval_count,
              eval_duration_seconds |-> Rat(eval_duration, NsPerSec),
              total_duration_seconds |-> Rat(total_duration, NsPerSec),
              tokens_per_second |-> tokens_per_second]

(***************************************************************************)
(* test_concurrent_requests, lines 206-236: the Round Summary computed     *)
(* from the gathered responses, or None when no probe succeeded.           *)
(* actual_time is end_time - start_time in seconds.                        *)
(***************************************************************************)
IsSuccess(r) == r.success

\* [r for r in responses if r["success"]]
Successful(responses) == SelectSeq(responses, IsSuccess)

\* mutant: the rate is taken over the successful probes
SuccessRate_OverSuccessful(successful, total_requests) ==
    Rat(Len(successful), Len(successful))

\* len(successful) / total_requests
SuccessRate(successful, total_requests) == Rat(Len(successful), total_requests)

\* mutant: the first value stands for the average
Average_First(successful, k) == successful[1][k]

\* sum(r[k] for r in successful) / len(successful)
Average(successful, k) == RDiv(RSum(MapField(successful, k)), RInt(Len(successful)))

\* mutant: a round with a single success counts as empty
Usable_MoreThanOne(successful) == Len(successful) > 1

\* line 207: if successful
Usable(successful) == successful # <<>>

\* mutant: the token total is not divided by the duration
SystemThroughput_NoDivision(total_tokens, actual_time) == RInt(total_tokens)

\* line 223: total_tokens / actual_time
SystemThroughput(total_tokens, actual_time) == RDiv(RInt(total_tokens), actual_time)

Summarise(responses, concurrent_requests, total_requests, actual_time) ==
    LET successful == Successful(responses)
    IN  IF Usable(successful)
        THEN LET total_tokens == ISum(MapField(successful, "eval_count"))
             IN  [concurrent_requests |-> concurrent_requests,
                  total_requests |-> total_requests,
                  success_rate |-> SuccessRate(successful, total_requests),
                  total_tokens |-> total_tokens,
                  average_generation_time |-> Average(successful, "eval_duration_seconds"),
                  average_total_time |-> Average(successful, "total_duration_seconds"),
                  average_tokens_per_second |-> Average(successful, "tokens_per_second"),
                  actual_total_time |-> actual_time,
                  system_throughput |-> SystemThroughput(total_tokens, actual_time)]
        ELSE None

(***************************************************************************)
(* check_system_health.  A sample is what psutil and nvidia-smi report:    *)
(*   raises : psutil raises (outer except: unhealthy, empty metrics)       *)
(*   cpu, mem : percentages                                                *)
(*   gpu_query : "missing" subprocess.run raises (no nvidia-smi),          *)
(*               "failed"  nvidia-smi returns a non-zero code,             *)
(*               "ok"      return code 0                                   *)
(*   lines : the lines of stdout; a line either parses into the floats     *)
(*           used / total or it does not ("[N/A]", empty output)           *)
(***************************************************************************)
GpuLine(used, total) == [parses |-> TRUE, used |-> used, total |-> total]
BadLine == [parses |-> FALSE, used |-> 0, total |-> 0]

\* lines 277-278: map(float, ...) and used / total do not raise
LineParses(line) == line.parses /\ line.total # 0

\* the loop of lines 276-293 runs up to the first line that raises
RECURSIVE GpuInfo(_)
GpuInfo(lines) ==
    IF lines = <<>> \/ ~LineParses(Head(lines)) THEN <<>>
    ELSE <<[memory_used |-> Head(lines).used, memory_total |-> Head(lines).total,
            memory_percent |-> RMul(Rat(Head(lines).used, Head(lines).total),
                                    RInt(100))]>>
         \o GpuInfo(Tail(lines))

\* the GPU block raised: at subprocess.run or at a line of the output
GpuRaises(sample) ==
    \/ sample.gpu_query = "missing"
    \/ sample.gpu_query = "ok" /\ \E i \in 1..Len(sample.lines) : ~LineParses(sample.lines[i])

\* mutant: the limit itself counts as healthy
CpuMemHealthy_Inclusive(cpu_percent, memory_percent) ==
    cpu_percent <= HardLimit /\ memory_percent <= HardLimit

\* lines 255-258
CpuMemHealthy(cpu_percent, memory_percent) ==
    cpu_percent < HardLimit /\ memory_percent < HardLimit

\* mutant: an error of the GPU block marks the host unhealthy
OnGpuError_Unhealthy(healthy) == FALSE

\* lines 295-296: the except clause of the GPU block logs and goes on
OnGpuError(healthy) == healthy

check_system_health(sample) ==
    IF sample.raises
    THEN [is_healthy |-> FALSE, metrics |-> EmptyDict]
    ELSE LET gpu_info == IF sample.gpu_query = "ok" THEN GpuInfo(sample.lines) ELSE <<>>
             gpu_over == \E i \in 1..Len(gpu_info) :
                             RGt(gpu_info[i].memory_percent, RInt(HardLimit))
             healthy == CpuMemHealthy(sample.cpu, sample.mem) /\ ~gpu_over
         IN  [is_healthy |-> IF GpuRaises(sample) THEN OnGpuError(healthy) ELSE healthy,
              metrics |-> [cpu_percent |-> sample.cpu,
                           memory_percent |-> sample.mem,
                           gpu_info |-> gpu_info]]

\* psutil raises
SampleRaises ==
    [raises |-> TRUE, cpu |-> 0, mem |-> 0, gpu_query |-> "missing", lines |-> <<>>]

\* the samples the host is given to report during a search
Samples ==
    {SampleRaises}
    \cup [raises : {FALSE}, cpu : {50, 90, 95}, mem : {50, 95},
          gpu_query : {"missing", "ok"},
          lines : {<<BadLine>>, <<GpuLine(9, 10)>>, <<GpuLine(5, 10), GpuLine(10, 10)>>}]

(***************************************************************************)
(* State.                                                                  *)
(***************************************************************************)
VARIABLES
    start_concurrent,        \* parameters of find_max_concurrency
    max_concurrent,
    requests_per_test,
    success_rate_threshold,
    latency_threshold,
    pc,                      \* where find_max_concurrency stands
    concurrent,              \* the loop variable: next value of the range
    results,                 \* list of recorded Round Summaries
    optimal_concurrent,
    max_throughput,
    consecutive_failures,
    result,                  \* what the last test_concurrent_requests returned
    is_healthy,              \* what the last check_system_health returned
    cooldown,                \* seconds of the asyncio.sleep being awaited
    stop,                    \* how the loop was left
    sem,                     \* value of the asyncio.Semaphore of the round
    tasks,                   \* the bounded_request tasks of the round
    elapsed,                 \* time.time() - start_time, in ticks
    roundLog,                \* per attempted round: generate calls sent and
                             \* succeeded, tasks completed, whether the
                             \* post-round check and cooldown were done
    main_pc,                 \* where main stands ("none": main is not run)
    available,               \* what ensure_model_available returned
    pull_reply,              \* the answer to POST /api/pull being handled
    baseline,                \* test_single_request: loop index, step, results
    single_results,          \* what test_single_request returned
    written,                 \* result files written
    unload_calls,            \* keep_alive 0 requests sent
    raising,                 \* an exception is propagating out of main
    host,                    \* the readings given to check_system_health
    snapshots                \* what the calls of check_system_health on
                             \* host returned

vars == <<start_concurrent, max_concurrent, requests_per_test,
          success_rate_threshold, latency_threshold, pc, concurrent, results,
          optimal_concurrent, max_throughput, consecutive_failures, result,
          is_healthy, cooldown, stop, sem, tasks, elapsed, roundLog,
          main_pc, available, pull_reply, baseline, single_results, written,
          unload_calls, raising, host, snapshots>>

params == <<start_concurrent, max_concurrent, requests_per_test,
            success_rate_threshold, latency_threshold>>
search == <<results, optimal_concurrent, max_throughput, consecutive_failures>>
round == <<sem, tasks, elapsed>>
health == <<host, snapshots>>
outer == <<main_pc, available, pull_reply, baseline, single_results, written,
           unload_calls, raising, host, snapshots>>

\* values given to success_rate_threshold and latency_threshold (seconds)
SuccessRateThresholds == {Rat(1, 2), Rat(95, 100)}
LatencyThresholds == {RInt(1)}

\* seconds slept by find_max_concurrency
ExtendedCooldown == 30
ShortCooldown == 5

\* no answer of /api/pull is being handled
NoReply == [raises |-> FALSE, status |-> 0, lines |-> <<>>]

\* test_single_request is not running
BaselineIdle == [i |-> 0, st |-> "idle", results |-> <<>>]

\* main is not run: find_max_concurrency is called on its own
MainNotRun ==
    /\ main_pc = "none"
    /\ available = FALSE
    /\ pull_reply = NoReply
    /\ baseline = BaselineIdle
    /\ single_results = None
    /\ written = 0
    /\ unload_calls = 0
    /\ raising = FALSE

\* check_system_health is not called on its own
HealthNotRun ==
    /\ host = SampleRaises
    /\ snapshots = <<>>

\* the locals of find_max_concurrency, lines 310-313
SearchStart ==
    /\ results = <<>>
    /\ optimal_concurrent = 0
    /\ max_throughput = Zero
    /\ consecutive_failures = 0
    /\ result = None
    /\ is_healthy = TRUE
    /\ cooldown = 0
    /\ stop = "none"
    /\ sem = 0
    /\ tasks = <<>>
    /\ elapsed = 0
    /\ roundLog = <<>>

Init ==
    /\ start_concurrent \in 1..MaxConcurrent
    /\ max_concurrent \in 1..MaxConcurrent
    /\ requests_per_test \in 1..MaxRequests
    /\ (max_concurrent - start_concurrent + 1) * requests_per_test <= MaxProbes
    /\ success_rate_threshold \in SuccessRateThresholds
    /\ latency_threshold \in LatencyThresholds
    /\ pc = "for"
    /\ concurrent = start_concurrent
    /\ SearchStart
    /\ MainNotRun
    /\ HealthNotRun

(***************************************************************************)
(* find_max_concurrency, lines 315-332: the loop head, the pre-round       *)
(* health gate and the start of test_concurrent_requests (lines 176-201),  *)
(* which creates the semaphore and the tasks and awaits gather.            *)
(***************************************************************************)
\* a task that has not returned yet has no result
Pending == [success |-> FALSE, error |-> "pending"]
\* status: HTTP status of the response (0 while there is none)
NewTask == [st |-> "waiting", result |-> Pending, wake |-> 0, status |-> 0]

\* mutant: the range skips every other level
NextLevel_Skip(level) == level + 2

\* line 315: the value of range(start_concurrent, max_concurrent + 1) after level
NextLevel(level) == level + 1

\* mutant: one task per slot of the gate
TaskCount_PerSlot(concurrent_requests, total_requests) == concurrent_requests

\* line 193: for _ in range(total_requests)
TaskCount(concurrent_requests, total_requests) == total_requests

\* mutant: the semaphore is sized by the number of requests
NewSemaphore_Total(concurrent_requests, total_requests) == total_requests

\* line 176: asyncio.Semaphore(concurrent_requests)
NewSemaphore(concurrent_requests, total_requests) == concurrent_requests

\* mutant: the gate ignores the snapshot
GateStops_Never(healthy) == FALSE

\* line 318: if not is_healthy
GateStops(healthy) == ~healthy

\* line 325: metrics["cpu_percent"] > 90 or metrics["memory_percent"] > 90
EmergencyStop(metrics) ==
    metrics.cpu_percent > HardLimit \/ metrics.memory_percent > HardLimit

PreRoundHealthGate(sample) ==
    /\ pc = "for"
    /\ concurrent <= max_concurrent
    /\ LET h == check_system_health(sample)
       IN  /\ is_healthy' = h.is_healthy
           /\ IF GateStops(h.is_healthy)
              THEN /\ pc' = "sleep_break"
                   /\ cooldown' = ExtendedCooldown
                   /\ UNCHANGED <<stop, round, roundLog>>
              ELSE IF "cpu_percent" \notin DOMAIN h.metrics
              THEN \* metrics["cpu_percent"] raises KeyError out of the search
                   /\ pc' = "raised"
                   /\ UNCHANGED <<cooldown, stop, round, roundLog>>
              ELSE IF EmergencyStop(h.metrics)
              THEN /\ pc' = "done"
                   /\ stop' = "emergency"
                   /\ UNCHANGED <<cooldown, round, roundLog>>
              ELSE /\ pc' = "gather"
                   /\ sem' = NewSemaphore(concurrent, requests_per_test)
                   /\ tasks' = [p \in 1..TaskCount(concurrent, requests_per_test)
                                   |-> NewTask]
                   /\ elapsed' = 0
                   /\ roundLog' = Append(roundLog,
                                         [concurrent |-> concurrent, sent |-> 0,
                                          successes |-> 0, completed |-> 0,
                                          cooled |-> FALSE])
                   /\ UNCHANGED <<cooldown, stop>>
    /\ UNCHANGED <<params, concurrent, search, result>>
    /\ UNCHANGED outer

\* lines 321-322: the sleep(30) ends, break
ExtendedCooldownBreak ==
    /\ pc = "sleep_break"
    /\ pc' = "done"
    /\ stop' = "unhealthy"
    /\ cooldown' = 0
    /\ UNCHANGED <<params, concurrent, search, result, is_healthy, round, roundLog>>
    /\ UNCHANGED outer

\* line 315: the range is exhausted
LoopExhausted ==
    /\ pc = "for"
    /\ concurrent > max_concurrent
    /\ pc' = "done"
    /\ stop' = "exhausted"
    /\ UNCHANGED <<params, concurrent, search, result, is_healthy, cooldown, round, roundLog>>
    /\ UNCHANGED outer

(***************************************************************************)
(* bounded_request, lines 178-183: one task of the round.                  *)
(*   waiting : created, not yet through "async with sem"                   *)
(*   request : holds a slot, generate call sent, awaiting the response     *)
(*   sleep   : holds a slot, in asyncio.sleep(0.5)                         *)
(*   done    : slot released, result returned to gather                    *)
(***************************************************************************)
Max(a, b) == IF a > b THEN a ELSE b

\* mutant: the last slot of the semaphore is never given
GateOpen_Strict(value) == value > 1

\* asyncio.Semaphore: acquire passes only while the value is positive
GateOpen(value) == value > 0

\* tasks start in creation order and the semaphore wakes its waiters first in,
\* first out: a task passes the gate only after every task created before it
FirstWaiting(ts, p) == \A q \in DOMAIN ts : q < p => ts[q].st # "waiting"

LogSent(log) == [log EXCEPT ![Len(log)].sent = @ + 1]
LogSuccess(log) == [log EXCEPT ![Len(log)].successes = @ + 1]
LogCompleted(log) == [log EXCEPT ![Len(log)].completed = @ + 1]
LogCooled(log) == [log EXCEPT ![Len(log)].cooled = TRUE]

\* "async with sem" is entered and single_request posts the generate call
Acquire(p) ==
    /\ pc = "gather"
    /\ p \in DOMAIN tasks
    /\ tasks[p].st = "waiting"
    /\ GateOpen(sem)
    /\ FirstWaiting(tasks, p)
    /\ sem' = sem - 1
    /\ tasks' = [tasks EXCEPT ![p].st = "request"]
    /\ roundLog' = LogSent(roundLog)
    /\ UNCHANGED <<params, pc, concurrent, search, result, is_healthy, cooldown, stop, elapsed>>
    /\ UNCHANGED outer

\* the generate call returns or raises and the cooldown begins.  The clock is
\* advanced by the cooldowns only: a response is stamped with the time reached
\* by the cooldowns that ended before it.  An exception that left
\* single_request would leave "async with sem" and the task, and gather
\* would raise it out of test_concurrent_requests and find_max_concurrency.
Respond(p, reply) ==
    /\ pc = "gather"
    /\ p \in DOMAIN tasks
    /\ tasks[p].st = "request"
    /\ LET r == single_request(reply)
       IN  IF Raised(r)
           THEN /\ tasks' = [tasks EXCEPT ![p] = [st |-> "done", result |-> r,
                                                  wake |-> 0, status |-> reply.status]]
                /\ sem' = sem + 1
                /\ pc' = "raised"
                /\ UNCHANGED roundLog
           ELSE /\ tasks' = [tasks EXCEPT ![p] = [st |-> "sleep", result |-> r,
                                                  wake |-> elapsed + CooldownTicks,
                                                  status |-> reply.status]]
                /\ roundLog' = IF r.success THEN LogSuccess(roundLog) ELSE roundLog
                /\ UNCHANGED <<pc, sem>>
    /\ UNCHANGED <<params, concurrent, search, result, is_healthy, cooldown, stop,
                   elapsed>>
    /\ UNCHANGED outer

\* the 0.5 s cooldown is over, "async with sem" is left, the task returns
CooldownOver(p) ==
    /\ pc = "gather"
    /\ p \in DOMAIN tasks
    /\ tasks[p].st = "sleep"
    /\ elapsed' = Max(elapsed, tasks[p].wake)
    /\ sem' = sem + 1
    /\ tasks' = [tasks EXCEPT ![p].st = "done", ![p].wake = 0]
    /\ roundLog' = LogCompleted(roundLog)
    /\ UNCHANGED <<params, pc, concurrent, search, result, is_healthy, cooldown, stop>>
    /\ UNCHANGED outer

(***************************************************************************)
(* test_concurrent_requests, lines 201-236: gather returns once every task *)
(* is done; the summary (or None) is returned to find_max_concurrency.     *)
(***************************************************************************)
\* mutant: the wait returns at the first completed task
AllTasksDone_Any(ts) == \E p \in DOMAIN ts : ts[p].st = "done"

\* asyncio.gather(*tasks) completes
AllTasksDone(ts) == \A p \in DOMAIN ts : ts[p].st = "done"

\* responses, in task order
Responses(ts) == [p \in DOMAIN ts |-> ts[p].result]

\* end_time - start_time, in seconds
ActualTime(ticks) == Rat(ticks, TicksPerSecond)

GatherReturn ==
    /\ pc = "gather"
    /\ AllTasksDone(tasks)
    /\ result' = Summarise(Responses(tasks), concurrent, requests_per_test,
                           ActualTime(elapsed))
    /\ pc' = "handle"
    /\ sem' = 0
    /\ tasks' = <<>>
    /\ elapsed' = 0
    /\ UNCHANGED <<params, concurrent, search, is_healthy, cooldown, stop, roundLog>>
    /\ UNCHANGED outer

(***************************************************************************)
(* find_max_concurrency, lines 334-367: what is done with the round's      *)
(* result up to the next await.                                            *)
(***************************************************************************)
\* mutant: a tie in throughput replaces the best
BestImproves_Tie(res, srt, lt, best) ==
    /\ RGe(res.success_rate, srt)
    /\ RLe(res.average_generation_time, lt)
    /\ RGe(res.system_throughput, best)

\* mutant: the best is replaced whenever the thresholds are met
BestImproves_Always(res, srt, lt, best) ==
    /\ RGe(res.success_rate, srt)
    /\ RLe(res.average_generation_time, lt)

\* mutant: the best is replaced on higher throughput, thresholds unchecked
BestImproves_Unchecked(res, srt, lt, best) == RGt(res.system_throughput, best)

\* lines 355-357
MeetsThresholds(res, srt, lt) ==
    /\ RGe(res.success_rate, srt)
    /\ RLe(res.average_generation_time, lt)

BestImproves(res, srt, lt, best) ==
    /\ MeetsThresholds(res, srt, lt)
    /\ RGt(res.system_throughput, best)

\* mutant: the stop test forgets the latency ceiling
BreachesThresholds_SuccessOnly(res, srt, lt) == RLt(res.success_rate, srt)

\* lines 362-363
BreachesThresholds(res, srt, lt) ==
    \/ RLt(res.success_rate, srt)
    \/ RGt(res.average_generation_time, lt)

\* mutant: the first empty round stops the search
TooManyFailures_One(n) == n >= 1

\* line 336
TooManyFailures(n) == n >= MaxConsecutiveFailures

HandleResult ==
    /\ pc = "handle"
    /\ IF IsNone(result)
       THEN /\ consecutive_failures' = consecutive_failures + 1
            /\ IF TooManyFailures(consecutive_failures + 1)
               THEN /\ pc' = "done"
                    /\ stop' = "no_result"
                    /\ UNCHANGED concurrent
               ELSE /\ pc' = "for"
                    /\ concurrent' = NextLevel(concurrent)
                    /\ UNCHANGED stop
            /\ UNCHANGED <<results, optimal_concurrent, max_throughput>>
       ELSE /\ consecutive_failures' = 0
            /\ results' = Append(results, result)
            /\ IF BestImproves(result, success_rate_threshold, latency_threshold,
                               max_throughput)
               THEN /\ optimal_concurrent' = concurrent
                    /\ max_throughput' = result.system_throughput
               ELSE UNCHANGED <<optimal_concurrent, max_throughput>>
            /\ IF BreachesThresholds(result, success_rate_threshold, latency_threshold)
               THEN /\ pc' = "done"
                    /\ stop' = "threshold"
               ELSE /\ pc' = "post_health"
                    /\ UNCHANGED stop
            /\ UNCHANGED concurrent
    /\ UNCHANGED <<params, result, is_healthy, cooldown, round, roundLog>>
    /\ UNCHANGED outer

\* mutant: the short cooldown whatever the health
PostRoundCooldown_AlwaysShort(healthy) == ShortCooldown

\* lines 370-375: the post-round health check chooses the cooldown
PostRoundCooldown(healthy) == IF ~healthy THEN ExtendedCooldown ELSE ShortCooldown

PostRoundHealth(sample) ==
    /\ pc = "post_health"
    /\ is_healthy' = check_system_health(sample).is_healthy
    /\ cooldown' = PostRoundCooldown(is_healthy')
    /\ pc' = "post_sleep"
    /\ UNCHANGED <<params, concurrent, search, result, stop, round, roundLog>>
    /\ UNCHANGED outer

\* the sleep ends; the for loop takes the next value of the range
PostRoundSleepOver ==
    /\ pc = "post_sleep"
    /\ cooldown' = 0
    /\ concurrent' = NextLevel(concurrent)
    /\ pc' = "for"
    /\ roundLog' = LogCooled(roundLog)
    /\ UNCHANGED <<params, search, result, is_healthy, stop, round>>
    /\ UNCHANGED outer

Next ==
    \/ \E sample \in Samples : PreRoundHealthGate(sample)
    \/ ExtendedCooldownBreak
    \/ LoopExhausted
    \/ \E p \in 1..MaxRequests : Acquire(p)
    \/ \E p \in 1..MaxRequests, reply \in Replies : Respond(p, reply)
    \/ \E p \in 1..MaxRequests : CooldownOver(p)
    \/ GatherReturn
    \/ HandleResult
    \/ \E sample \in Samples : PostRoundHealth(sample)
    \/ PostRoundSleepOver

Spec == Init /\ [][Next]_vars

\* The event loop runs every task that is ready, every sleep ends, and every
\* generate call and health check is taken to return: a step that is possible
\* is eventually taken.
Fairness == WF_vars(Next)

\* largest number of probes a search checked for termination is given to issue
FairProbes == 2

InitFair ==
    /\ start_concurrent \in 1..MaxConcurrent
    /\ max_concurrent \in 1..MaxConcurrent
    /\ requests_per_test \in 1..MaxRequests
    /\ (max_concurrent - start_concurrent + 1) * requests_per_test <= FairProbes
    /\ success_rate_threshold \in SuccessRateThresholds
    /\ latency_threshold \in LatencyThresholds
    /\ pc = "for"
    /\ concurrent = start_concurrent
    /\ SearchStart
    /\ MainNotRun
    /\ HealthNotRun

SpecFair == InitFair /\ [][Next]_vars /\ Fairness

(***************************************************************************)
(* main, lines 489-557: model preparation, initial health check, baseline  *)
(* of single requests, adaptive search, result file, and the unload of the *)
(* model in the finally clause.                                            *)
(*   main_pc: tags, pull, ensured, health, baseline, search, write,        *)
(*            finally, unload, exited                                      *)
(***************************************************************************)
\* largest number of probes the search run by main is given to issue
MainProbes == 2
\* test_single_request(num_tests=3)
NumTests == 3
\* the model under test
Model == "deepseek-r1:1.5b"
\* line 530: success_rate_threshold=0.95
MainSuccessRateThreshold == Rat(95, 100)

searchvars == <<params, pc, concurrent, search, result, is_healthy, cooldown, stop,
                round, roundLog>>

\* the try statement of main: where control goes when the try block is left
\* by return, by an exception ("raise") or by reaching its end ("end")
\* mutant: a return inside the try block skips the finally clause
Finally_NotOnReturn(exit) == IF exit = "return" THEN "exited" ELSE "finally"

\* line 552: finally
Finally(exit) == "finally"

\* the server's possible answers to GET /api/tags
TagReplies ==
    {[raises |-> TRUE, status |-> 0, body |-> [error |-> "ClientError"]],
     [raises |-> FALSE, status |-> 500, body |-> [error |-> "internal error"]],
     [raises |-> FALSE, status |-> 200, body |-> [error |-> "no list"]],
     [raises |-> FALSE, status |-> 200, body |-> [models |-> <<[name |-> "llama3:8b"]>>]],
     [raises |-> FALSE, status |-> 200,
      body |-> [models |-> <<[name |-> "llama3:8b"], [name |-> Model]>>]]}

\* lines 387-402
check_model_exists(reply) ==
    IF reply.raises THEN FALSE
    ELSE IF reply.status # 200 THEN FALSE
    ELSE LET models == Get(reply.body, "models", <<>>)
         IN  \E i \in 1..Len(models) : models[i].name = Model

\* a line of the answer to POST /api/pull:
\*   json    : an object with the given status
\*   notjson : json.loads raises JSONDecodeError
\*   notdict : JSON that is not an object (data.get raises AttributeError)
\*   empty   : an empty chunk
Event(status) == [kind |-> "json", status |-> status]
NotJson == [kind |-> "notjson", status |-> ""]
NotDict == [kind |-> "notdict", status |-> ""]
EmptyLine == [kind |-> "empty", status |-> ""]

\* the server's possible answers to POST /api/pull
PullReplies ==
    {[raises |-> TRUE, status |-> 0, lines |-> <<>>],
     [raises |-> FALSE, status |-> 404, lines |-> <<Event("success")>>]}
    \cup [raises : {FALSE}, status : {200},
          lines : {<<>>,
                   <<Event("downloading")>>,
                   <<Event("downloading"), Event("success")>>,
                   <<EmptyLine, NotJson, Event("success")>>,
                   <<NotDict, Event("success")>>}]

\* lines 421-445: the loop over the lines of the answer
RECURSIVE ScanLines(_)
ScanLines(lines) ==
    IF lines = <<>> THEN FALSE
    ELSE LET line == Head(lines)
         IN  IF line.kind \in {"empty", "notjson"} THEN ScanLines(Tail(lines))
             ELSE IF line.kind = "notdict" THEN FALSE
             ELSE IF line.status = "success" THEN TRUE
             ELSE ScanLines(Tail(lines))

\* mutant: every answer with status 200 counts as pulled
pull_model_AnyOk(reply) == ~reply.raises /\ reply.status = 200

\* lines 404-449
pull_model(reply) ==
    IF reply.raises THEN FALSE
    ELSE IF reply.status # 200 THEN FALSE
    ELSE ScanLines(reply.lines)

\* ensure_model_available, lines 453-457: the model list is fetched
CheckModelExists(reply) ==
    /\ main_pc = "tags"
    /\ IF check_model_exists(reply)
       THEN /\ available' = TRUE
            /\ main_pc' = "ensured"
       ELSE /\ main_pc' = "pull"
            /\ UNCHANGED available
    /\ UNCHANGED <<searchvars, pull_reply, baseline, single_results, written,
                   unload_calls, raising, health>>

\* ensure_model_available, line 461: the result of pull_model is returned
PullModel(reply) ==
    /\ main_pc = "pull"
    /\ available' = pull_model(reply)
    /\ pull_reply' = reply
    /\ main_pc' = "ensured"
    /\ UNCHANGED <<searchvars, baseline, single_results, written, unload_calls,
                   raising, health>>

\* lines 497-499: if not ensure_model_available(): return
MainAfterEnsure ==
    /\ main_pc = "ensured"
    /\ pull_reply' = NoReply
    /\ main_pc' = IF ~available THEN Finally("return") ELSE "health"
    /\ UNCHANGED <<searchvars, available, baseline, single_results, written,
                   unload_calls, raising, health>>

\* lines 502-505: the initial health check
MainHealthCheck(sample) ==
    /\ main_pc = "health"
    /\ main_pc' = IF ~check_system_health(sample).is_healthy
                  THEN Finally("return") ELSE "baseline"
    /\ UNCHANGED <<searchvars, available, pull_reply, baseline, single_results,
                   written, unload_calls, raising, health>>

\* test_single_request, line 138: the next single request is sent
BaselineRequest ==
    /\ main_pc = "baseline"
    /\ baseline.st = "idle"
    /\ baseline.i < NumTests
    /\ baseline' = [baseline EXCEPT !.st = "request"]
    /\ UNCHANGED <<searchvars, main_pc, available, pull_reply, single_results,
                   written, unload_calls, raising, health>>

\* lines 138-149: the request is answered, a success is kept, sleep(2) begins
BaselineRespond(reply) ==
    /\ main_pc = "baseline"
    /\ baseline.st = "request"
    /\ LET r == single_request(reply)
       IN  IF Raised(r)
           THEN /\ raising' = TRUE
                /\ main_pc' = Finally("raise")
                /\ UNCHANGED baseline
           ELSE /\ baseline' = [baseline EXCEPT
                                    !.st = "sleep",
                                    !.results = IF r.success THEN Append(@, r) ELSE @]
                /\ UNCHANGED <<raising, main_pc>>
    /\ UNCHANGED <<searchvars, available, pull_reply, single_results, written,
                   unload_calls, health>>

\* line 149: the sleep ends
BaselineSleepOver ==
    /\ main_pc = "baseline"
    /\ baseline.st = "sleep"
    /\ baseline' = [baseline EXCEPT !.st = "idle", !.i = @ + 1]
    /\ UNCHANGED <<searchvars, main_pc, available, pull_reply, single_results,
                   written, unload_calls, raising, health>>

\* lines 151-169: the averages over the successful single requests, or None
SingleSummary(rs) ==
    IF rs # <<>>
    THEN [avg_tokens |-> Rat(ISum(MapField(rs, "eval_count")), Len(rs)),
          avg_generation_time |-> Average(rs, "eval_duration_seconds"),
          avg_total_time |-> Average(rs, "total_duration_seconds"),
          avg_tokens_per_second |-> Average(rs, "tokens_per_second"),
          individual_results |-> rs]
    ELSE None

\* line 523 returns and line 526 calls find_max_concurrency
BaselineReturn ==
    /\ main_pc = "baseline"
    /\ baseline.st = "idle"
    /\ baseline.i = NumTests
    /\ single_results' = SingleSummary(baseline.results)
    /\ main_pc' = "search"
    /\ pc' = "for"
    /\ UNCHANGED <<params, concurrent, search, result, is_healthy, cooldown, stop,
                   round, roundLog, available, pull_reply, baseline, written,
                   unload_calls, raising, health>>

\* line 526: find_max_concurrency returns its dictionary, or an exception
\* leaves it
SearchReturn ==
    /\ main_pc = "search"
    /\ pc \in {"done", "raised"}
    /\ IF pc = "raised"
       THEN /\ raising' = TRUE
            /\ main_pc' = Finally("raise")
       ELSE /\ main_pc' = "write"
            /\ UNCHANGED raising
    /\ UNCHANGED <<searchvars, available, pull_reply, baseline, single_results,
                   written, unload_calls, health>>

\* mutant: no file is written
Written_Never(ok) == 0

\* lines 547-548: one file, unless open or json.dump raises
Written(ok) == IF ok THEN 1 ELSE 0

\* lines 536-550: the results are saved
WriteResults(ok) ==
    /\ main_pc = "write"
    /\ written' = written + Written(ok)
    /\ raising' = ~ok
    /\ main_pc' = IF ok THEN Finally("end") ELSE Finally("raise")
    /\ UNCHANGED <<searchvars, available, pull_reply, baseline, single_results,
                   unload_calls, health>>

\* main is cancelled while it awaits a probe or a sleep (asyncio.run on an
\* interrupt): CancelledError is raised at the await, it is no Exception,
\* gather cancels the tasks of the round and main goes on once they ended
Interrupt ==
    /\ \/ main_pc = "baseline" /\ baseline.st \in {"request", "sleep"}
       \/ main_pc = "search" /\ pc \in {"gather", "sleep_break", "post_sleep"}
    /\ raising' = TRUE
    /\ main_pc' = Finally("raise")
    /\ IF main_pc = "search"
       THEN /\ pc' = "raised"
            /\ sem' = 0
            /\ tasks' = <<>>
            /\ elapsed' = 0
            /\ UNCHANGED baseline
       ELSE \* the request or the sleep of test_single_request is abandoned
            /\ baseline' = [baseline EXCEPT !.st = "cancelled"]
            /\ UNCHANGED <<pc, round>>
    /\ UNCHANGED <<params, concurrent, search, result, is_healthy, cooldown, stop,
                   roundLog, available, pull_reply, single_results,
                   written, unload_calls, health>>

\* lines 556-557 and 469-476: the keep_alive 0 request is sent
UnloadRequest ==
    /\ main_pc = "finally"
    /\ unload_calls' = unload_calls + 1
    /\ main_pc' = "unload"
    /\ UNCHANGED <<searchvars, available, pull_reply, baseline, single_results,
                   written, raising, health>>

\* mutant: the unload request is sent again after its first return
UnloadReturn_Retry ==
    /\ main_pc = "unload"
    /\ main_pc' = IF unload_calls < 2 THEN "finally" ELSE "exited"
    /\ UNCHANGED <<searchvars, available, pull_reply, baseline, single_results,
                   written, unload_calls, raising, health>>

\* lines 477-487: unload_model returns (its result is not used, its
\* exceptions are caught) and main is left
UnloadReturn ==
    /\ main_pc = "unload"
    /\ main_pc' = "exited"
    /\ UNCHANGED <<searchvars, available, pull_reply, baseline, single_results,
                   written, unload_calls, raising, health>>

InitMain ==
    /\ start_concurrent \in 1..MaxConcurrent
    /\ max_concurrent \in 1..MaxConcurrent
    /\ requests_per_test \in 1..MaxRequests
    /\ (max_concurrent - start_concurrent + 1) * requests_per_test <= MainProbes
    /\ success_rate_threshold = MainSuccessRateThreshold
    /\ latency_threshold \in LatencyThresholds
    /\ pc = "idle"
    /\ concurrent = start_concurrent
    /\ SearchStart
    /\ main_pc = "tags"
    /\ available = FALSE
    /\ pull_reply = NoReply
    /\ baseline = BaselineIdle
    /\ single_results = None
    /\ written = 0
    /\ unload_calls = 0
    /\ raising = FALSE
    /\ HealthNotRun

NextMain ==
    \/ \E reply \in TagReplies : CheckModelExists(reply)
    \/ \E reply \in PullReplies : PullModel(reply)
    \/ MainAfterEnsure
    \/ \E sample \in Samples : MainHealthCheck(sample)
    \/ BaselineRequest
    \/ \E reply \in Replies : BaselineRespond(reply)
    \/ BaselineSleepOver
    \/ BaselineReturn
    \/ Next
    \/ SearchReturn
    \/ \E ok \in BOOLEAN : WriteResults(ok)
    \/ Interrupt
    \/ UnloadRequest
    \/ UnloadReturn

SpecMain == InitMain /\ [][NextMain]_vars

(***************************************************************************)
(* check_system_health called on its own, on every kind of reading.        *)
(***************************************************************************)
\* largest number of calls made on the same readings
MaxHealthCalls == 2

HealthInputs ==
    {SampleRaises}
    \cup [raises : {FALSE}, cpu : {0, 85, 89, 90, 91}, mem : {50, 89, 90, 100},
          gpu_query : {"missing", "failed", "ok"},
          lines : {<<BadLine>>,
                   <<GpuLine(9, 10)>>,
                   <<GpuLine(91, 100)>>,
                   <<GpuLine(5, 10), GpuLine(10, 10)>>,
                   <<GpuLine(10, 10), BadLine>>,
                   <<GpuLine(5, 10), GpuLine(0, 0), GpuLine(10, 10)>>}]

InitHealth ==
    /\ start_concurrent = 1
    /\ max_concurrent = 1
    /\ requests_per_test = 1
    /\ success_rate_threshold \in SuccessRateThresholds
    /\ latency_threshold \in LatencyThresholds
    /\ pc = "idle"
    /\ concurrent = start_concurrent
    /\ SearchStart
    /\ MainNotRun
    /\ host \in HealthInputs
    /\ snapshots = <<>>

CallHealth ==
    /\ Len(snapshots) < MaxHealthCalls
    /\ snapshots' = Append(snapshots, check_system_health(host))
    /\ UNCHANGED <<searchvars, main_pc, available, pull_reply, baseline,
                   single_results, written, unload_calls, raising, host>>

NextHealth == CallHealth

SpecHealth == InitHealth /\ [][NextHealth]_vars

(***************************************************************************)
(* Properties.                                                             *)
(***************************************************************************)
\* number of attempted rounds whose result find_max_concurrency has handled
Handled == IF pc \in {"gather", "handle"} THEN Len(roundLog) - 1 ELSE Len(roundLog)

\* the round summary r is below the success-rate floor or above the latency ceiling
FailsCheck(r) ==
    \/ r.success_rate[1] * success_rate_threshold[2]
          < success_rate_threshold[1] * r.success_rate[2]
    \/ r.average_generation_time[1] * latency_threshold[2]
          > latency_threshold[1] * r.average_generation_time[2]

\* C1: once a recorded round at level C fails the threshold check, the search
\* has terminated and no probe was issued at a level above C.
C1_StopsAtFailedLevel ==
    \A i \in 1..Len(results) :
        FailsCheck(results[i]) =>
            /\ pc = "done"
            /\ stop = "threshold"
            /\ i = Len(results)
            /\ \A j \in 1..Len(roundLog) :
                   roundLog[j].concurrent <= results[i].concurrent_requests

\* a search stopped by a failed check at a level below max_concurrent
C1_Witness ==
    /\ pc = "done"
    /\ Len(results) >= 2
    /\ FailsCheck(results[Len(results)])
    /\ results[Len(results)].concurrent_requests < max_concurrent

\* the tasks holding a slot of the gate: issuing their request or in cooldown
Admitted == {p \in DOMAIN tasks : tasks[p].st \in {"request", "sleep"}}

\* C2: during a round at most concurrent_requests probes are admitted, and
\* the free slots are exactly those not held by a probe in request or cooldown.
C2_GateBound ==
    pc = "gather" =>
        /\ Cardinality(Admitted) <= concurrent
        /\ sem = concurrent - Cardinality(Admitted)

\* the gate is full, one of its slots is held by a probe in cooldown, and a
\* task is waiting at the gate
C2_Witness ==
    /\ pc = "gather"
    /\ Cardinality(Admitted) = concurrent
    /\ \E p \in DOMAIN tasks : tasks[p].st = "sleep"
    /\ \E p \in DOMAIN tasks : tasks[p].st = "request"
    /\ \E p \in DOMAIN tasks : tasks[p].st = "waiting"

\* C3: when test_concurrent_requests has returned (summary or None), every
\* one of the total_requests tasks of that round was sent and has completed.
C3_SummaryAfterAllDone ==
    \A j \in 1..Len(roundLog) :
        (j < Len(roundLog) \/ pc # "gather") =>
            /\ roundLog[j].sent = requests_per_test
            /\ roundLog[j].completed = requests_per_test

\* a summary was produced for a round that had to queue at the gate and in
\* which one probe failed
C3_Witness ==
    /\ pc = "handle"
    /\ ~IsNone(result)
    /\ concurrent < requests_per_test
    /\ roundLog[Len(roundLog)].completed = requests_per_test
    /\ roundLog[Len(roundLog)].successes < requests_per_test

\* the round summary r is within both thresholds
PassesCheck(r) ==
    /\ r.success_rate[1] * success_rate_threshold[2]
          >= success_rate_threshold[1] * r.success_rate[2]
    /\ r.average_generation_time[1] * latency_threshold[2]
          <= latency_threshold[1] * r.average_generation_time[2]

\* the rational a is greater than the rational b
Exceeds(a, b) == a[1] * b[2] > b[1] * a[2]

\* C4: handling a recorded round sets (optimal_concurrent, max_throughput) to
\* (level, throughput of the round) exactly when the round is within both
\* thresholds and its throughput exceeds the best; otherwise, a tie included,
\* the pair is unchanged.
C4_BestUpdateIff ==
    [][(pc = "handle" /\ ~IsNone(result)) =>
          IF PassesCheck(result) /\ Exceeds(result.system_throughput, max_throughput)
          THEN /\ optimal_concurrent' = concurrent
               /\ max_throughput' = result.system_throughput
          ELSE UNCHANGED <<optimal_concurrent, max_throughput>>]_vars

\* two recorded rounds within the thresholds tie on a positive throughput and
\* the earlier, lower level is still the best
C4_Witness ==
    /\ Len(results) >= 2
    /\ PassesCheck(results[1])
    /\ PassesCheck(results[2])
    /\ results[1].system_throughput = results[2].system_throughput
    /\ Exceeds(results[1].system_throughput, Zero)
    /\ optimal_concurrent = results[1].concurrent_requests
    /\ max_throughput = results[1].system_throughput

\* C5: max_throughput never decreases; every change is a strict increase.
C5_BestThroughputMonotone ==
    [][max_throughput' = max_throughput \/ Exceeds(max_throughput', max_throughput)]_vars

\* the best was raised twice, and a later round within the thresholds with a
\* lower throughput left it alone
C5_Witness ==
    /\ Len(results) >= 3
    /\ \A i \in 1..3 : PassesCheck(results[i])
    /\ Exceeds(results[1].system_throughput, Zero)
    /\ Exceeds(results[2].system_throughput, results[1].system_throughput)
    /\ Exceeds(results[2].system_throughput, results[3].system_throughput)
    /\ max_throughput = results[2].system_throughput

\* C6: when the round at start_concurrent is recorded and fails the threshold
\* check, the search has returned with optimal_concurrent = 0 and
\* max_throughput = 0 after that single round.
C6_FirstLevelFails ==
    (/\ Len(results) >= 1
     /\ results[1].concurrent_requests = start_concurrent
     /\ FailsCheck(results[1]))
    => /\ pc = "done"
       /\ stop = "threshold"
       /\ optimal_concurrent = 0
       /\ max_throughput = Zero
       /\ Len(roundLog) = 1

\* the first level fails the check although its throughput is positive and
\* higher levels were left to try
C6_Witness ==
    /\ pc = "done"
    /\ Len(results) = 1
    /\ results[1].concurrent_requests = start_concurrent
    /\ FailsCheck(results[1])
    /\ Exceeds(results[1].system_throughput, Zero)
    /\ start_concurrent < max_concurrent

\* C7: after an unhealthy pre-round snapshot at level C the search only sleeps
\* and returns: no round is started at C or above, and if C is the first level
\* nothing is recorded and optimal_concurrent = 0.
C7_UnhealthyGate ==
    (~is_healthy /\ pc \notin {"post_sleep", "for"}) =>
        /\ pc \in {"sleep_break", "done"}
        /\ \A j \in 1..Len(roundLog) : roundLog[j].concurrent < concurrent
        /\ concurrent = start_concurrent =>
               /\ roundLog = <<>>
               /\ results = <<>>
               /\ optimal_concurrent = 0

\* the search returned on an unhealthy snapshot taken before the first round
C7_Witness ==
    /\ pc = "done"
    /\ stop = "unhealthy"
    /\ ~is_healthy
    /\ concurrent = start_concurrent
    /\ concurrent < max_concurrent
    /\ results = <<>>

\* number of rounds without a successful probe at the end of the first k
\* rounds of the log
RECURSIVE TrailingEmpty(_)
TrailingEmpty(k) ==
    IF k = 0 \/ roundLog[k].successes > 0 THEN 0 ELSE 1 + TrailingEmpty(k - 1)

\* C8: consecutive_failures counts the empty rounds at the end of the handled
\* rounds (one more per empty round, 0 after a round with a result); the
\* search is stopped for empty rounds exactly when two occurred in a row, and
\* otherwise the loop is at the level after the last round.
C8_ConsecutiveFailures ==
    /\ consecutive_failures = TrailingEmpty(Handled)
    /\ consecutive_failures >= 2 <=> stop = "no_result"
    /\ stop = "no_result" => pc = "done" /\ consecutive_failures = 2
    /\ (pc = "for" /\ roundLog # <<>>) =>
           concurrent = roundLog[Len(roundLog)].concurrent + 1

\* an empty round, a round with a result and another empty round were
\* handled, and the search went on to a fourth round
C8_Witness ==
    /\ Len(roundLog) = 4
    /\ roundLog[1].successes = 0
    /\ roundLog[2].successes > 0
    /\ roundLog[3].successes = 0
    /\ pc = "gather"
    /\ consecutive_failures = 1

\* levels of the handled rounds in which at least one probe succeeded
RECURSIVE NonEmptyLevels(_)
NonEmptyLevels(k) ==
    IF k = 0 THEN <<>>
    ELSE NonEmptyLevels(k - 1)
         \o (IF roundLog[k].successes > 0 THEN <<roundLog[k].concurrent>> ELSE <<>>)

\* C9: all_results holds exactly the handled rounds with at least one
\* successful probe, and the best pair is 0 / 0 or that of a recorded round.
C9_EmptyRoundsExcluded ==
    /\ MapField(results, "concurrent_requests") = NonEmptyLevels(Handled)
    /\ \/ optimal_concurrent = 0 /\ max_throughput = Zero
       \/ \E i \in 1..Len(results) :
              /\ results[i].concurrent_requests = optimal_concurrent
              /\ results[i].system_throughput = max_throughput

\* the search returned after an empty round and a round with one successful
\* and one failed probe
C9_Witness ==
    /\ pc = "done"
    /\ Len(results) = 1
    /\ \E j \in 1..Len(roundLog) : roundLog[j].successes = 0
    /\ \E j \in 1..Len(roundLog) :
           /\ roundLog[j].successes = 1
           /\ roundLog[j].concurrent = results[1].concurrent_requests
           /\ requests_per_test = 2

\* the log entry of the round at the given level
LogOf(level) == CHOOSE j \in 1..Len(roundLog) : roundLog[j].concurrent = level

\* the success rate of summary r is the number of successful probes of its
\* round over total_requests, and lies in [0, 1]
RateIsSuccessesOverTotal(r) ==
    LET n == roundLog[LogOf(r.concurrent_requests)].successes
    IN  /\ r.success_rate[1] * requests_per_test = n * r.success_rate[2]
        /\ r.success_rate[2] > 0
        /\ 0 <= r.success_rate[1]
        /\ r.success_rate[1] <= r.success_rate[2]

\* C10: every Round Summary, returned or recorded, has
\* success_rate = successes / total_requests, within [0, 1].
C10_SuccessRate ==
    /\ (pc = "handle" /\ ~IsNone(result)) => RateIsSuccessesOverTotal(result)
    /\ \A i \in 1..Len(results) : RateIsSuccessesOverTotal(results[i])

\* a summary of a round of three probes of which one failed
C10_Witness ==
    /\ pc = "handle"
    /\ ~IsNone(result)
    /\ requests_per_test = 3
    /\ roundLog[Len(roundLog)].successes = 2
    /\ result.success_rate = <<2, 3>>

\* tokens generated by the successful probes among the first k tasks
RECURSIVE RoundTokens(_)
RoundTokens(k) ==
    IF k = 0 THEN 0
    ELSE RoundTokens(k - 1)
         + (IF tasks[k].result.success THEN tasks[k].result.eval_count ELSE 0)

\* C11: when a round returns, a round without a successful probe returns None
\* (no summary with throughput 0), and otherwise the summary's
\* system_throughput is the tokens of the successful probes only, divided by
\* the wall-clock time from the launch of the tasks to the last completion.
C11_SystemThroughput ==
    [][(pc = "gather" /\ pc' = "handle") =>
          IF \A p \in DOMAIN tasks : ~tasks[p].result.success
          THEN IsNone(result')
          ELSE /\ ~IsNone(result')
               /\ elapsed > 0
               /\ result'.system_throughput[1] * elapsed
                      = RoundTokens(Len(tasks)) * TicksPerSecond
                            * result'.system_throughput[2]]_vars

\* a round of three probes through one slot, one of which failed: 2 tokens in
\* 1.5 s
C11_Witness ==
    /\ pc = "handle"
    /\ ~IsNone(result)
    /\ roundLog[Len(roundLog)].successes = 2
    /\ requests_per_test = 3
    /\ result.total_tokens = 2
    /\ result.actual_total_time = <<3, 2>>
    /\ result.system_throughput = <<4, 3>>

\* C12: no exception leaves a probe: every answered probe holds a Probe
\* Result, flagged failed with an error description when the request raised
\* (connection error or body that is not JSON), and every round whose result
\* was handled completed all its probes whatever number of them failed.
C12_ProbeNeverRaises ==
    /\ pc # "raised"
    /\ \A p \in DOMAIN tasks :
           tasks[p].st \in {"sleep", "done"} =>
               /\ DOMAIN tasks[p].result \in
                      {{"success", "error"},
                       {"success", "eval_count", "eval_duration_seconds",
                        "total_duration_seconds", "tokens_per_second"}}
               /\ tasks[p].status \in {0, 502} =>
                      /\ ~tasks[p].result.success
                      /\ tasks[p].result.error \in {"ClientError", "ContentTypeError"}
    /\ \A j \in 1..Handled : roundLog[j].completed = requests_per_test

\* all three probes of a round returned: one met a connection error, one a
\* body that is not JSON, one succeeded
C12_Witness ==
    /\ pc = "gather"
    /\ Len(tasks) = 3
    /\ \A p \in DOMAIN tasks : tasks[p].st = "done"
    /\ \E p \in DOMAIN tasks : tasks[p].result = [success |-> FALSE, error |-> "ClientError"]
    /\ \E p \in DOMAIN tasks :
           tasks[p].result = [success |-> FALSE, error |-> "ContentTypeError"]
    /\ \E p \in DOMAIN tasks : tasks[p].result.success

\* C13: a probe answered with a non-success HTTP status holds a result
\* flagged failed, so it is not among the successful probes of its round.
C13_NonSuccessStatusFails ==
    \A p \in DOMAIN tasks :
        (/\ tasks[p].st \in {"sleep", "done"}
         /\ tasks[p].status >= 400)
        => ~tasks[p].result.success

\* C14: every round followed by another round completed all its probes and
\* had its post-round health check and cooldown completed before the next
\* round started, a round without a usable result included.
C14_RoundsSequential ==
    \A j \in 1..Len(roundLog) :
        j < Len(roundLog) =>
            /\ roundLog[j].completed = requests_per_test
            /\ roundLog[j].cooled

\* C20: after the search stopped on a round failing the threshold check, the
\* best pair is not that round's: it is 0 / 0, or the level and throughput
\* of an earlier recorded round within the thresholds.
C20_FailingRoundKeepsBest ==
    (stop = "threshold") =>
        /\ FailsCheck(results[Len(results)])
        /\ optimal_concurrent # results[Len(results)].concurrent_requests
        /\ \/ optimal_concurrent = 0 /\ max_throughput = Zero
           \/ \E i \in 1..(Len(results) - 1) :
                  /\ PassesCheck(results[i])
                  /\ results[i].concurrent_requests = optimal_concurrent
                  /\ results[i].system_throughput = max_throughput

\* the first round passed and set the best; the second round fell below the
\* success-rate floor with a higher throughput, and the best is still the
\* first round's
C20_Witness ==
    /\ stop = "threshold"
    /\ Len(results) = 2
    /\ PassesCheck(results[1])
    /\ Exceeds(results[2].system_throughput, results[1].system_throughput)
    /\ results[2].success_rate[1] * success_rate_threshold[2]
          < success_rate_threshold[1] * results[2].success_rate[2]
    /\ optimal_concurrent = results[1].concurrent_requests
    /\ max_throughput = results[1].system_throughput

\* C15: whenever main has been left - at its end, by the return after a
\* failed model preparation, by the return after an unhealthy initial check,
\* or by an exception of the probing or of the writing of the results - the
\* unload request was sent.
C15_UnloadOnEveryExit ==
    main_pc = "exited" => unload_calls >= 1

\* main returned on an unhealthy initial health check, before any probe, and
\* the unload request was sent
C15_Witness ==
    /\ main_pc = "exited"
    /\ available
    /\ ~raising
    /\ pc = "idle"
    /\ baseline = BaselineIdle
    /\ unload_calls = 1

\* the lines of the handled answer to POST /api/pull hold a success event
HasSuccessEvent(lines) ==
    \E i \in 1..Len(lines) : lines[i].kind = "json" /\ lines[i].status = "success"

\* C16: when the model was not installed, ensure_model_available returns
\* true only if the pull was answered with status 200 and a success event;
\* and after it returned false main sends no probe: no single request, no
\* round.
C16_PullDecides ==
    /\ (main_pc = "ensured" /\ pull_reply # NoReply /\ available) =>
           /\ ~pull_reply.raises
           /\ pull_reply.status = 200
           /\ HasSuccessEvent(pull_reply.lines)
    /\ (main_pc \notin {"tags", "pull"} /\ ~available) =>
           /\ main_pc \in {"ensured", "finally", "unload", "exited"}
           /\ baseline = BaselineIdle
           /\ roundLog = <<>>
           /\ pc = "idle"

\* the pull was answered with status 200 and progress events but no success
\* event: the model is not available
C16_Witness ==
    /\ main_pc = "ensured"
    /\ ~available
    /\ ~pull_reply.raises
    /\ pull_reply.status = 200
    /\ pull_reply.lines # <<>>
    /\ ~HasSuccessEvent(pull_reply.lines)

\* C17 as stated: whenever main has been left, the result file was written.
C17_AlwaysWritten ==
    main_pc = "exited" => written >= 1

\* C17: when main has been left, exactly one result file was written if
\* find_max_concurrency returned (however the search stopped, a best level
\* found or not) and the writing raised no error; otherwise (return after a
\* failed model preparation or an unhealthy initial check, exception) none.
C17_WrittenWhenSearchReturned ==
    main_pc = "exited" =>
        IF pc = "done" /\ ~raising THEN written = 1 ELSE written = 0

\* the search stopped after two rounds without a result, no level was found,
\* and the file was written
C17_Witness ==
    /\ main_pc = "exited"
    /\ stop = "no_result"
    /\ optimal_concurrent = 0
    /\ results = <<>>
    /\ written = 1

\* the GPU readings of a snapshot are those of the leading lines of host
GpuReadingsOf(m) ==
    /\ Len(m.gpu_info) <= Len(host.lines)
    /\ \A k \in 1..Len(m.gpu_info) :
           /\ host.lines[k].parses
           /\ m.gpu_info[k].memory_used = host.lines[k].used
           /\ m.gpu_info[k].memory_total = host.lines[k].total
           /\ m.gpu_info[k].memory_percent[1] * host.lines[k].total
                  = 100 * host.lines[k].used * m.gpu_info[k].memory_percent[2]

\* no GPU reading of the metrics is above 90 %
NoGpuOver(m) ==
    \A k \in 1..Len(m.gpu_info) :
        m.gpu_info[k].memory_percent[1] <= 90 * m.gpu_info[k].memory_percent[2]

\* C18: a snapshot is healthy iff its CPU percentage is below 90, its memory
\* percentage is below 90 and none of its GPU readings is above 90 %; and
\* every call on the same readings returns the same snapshot.
C18_HealthyIff ==
    \A i \in 1..Len(snapshots) :
        /\ snapshots[i] = snapshots[1]
        /\ IF host.raises
           THEN ~snapshots[i].is_healthy /\ snapshots[i].metrics = EmptyDict
           ELSE LET m == snapshots[i].metrics
                IN  /\ m.cpu_percent = host.cpu
                    /\ m.memory_percent = host.mem
                    /\ GpuReadingsOf(m)
                    /\ snapshots[i].is_healthy <=>
                          (/\ m.cpu_percent < 90
                           /\ m.memory_percent < 90
                           /\ NoGpuOver(m))

\* CPU and memory are at 89 %, the only GPU is at 91 %: unhealthy, twice
C18_Witness ==
    /\ Len(snapshots) = 2
    /\ host.cpu = 89
    /\ host.mem = 89
    /\ host.gpu_query = "ok"
    /\ host.lines = <<GpuLine(91, 100)>>
    /\ ~snapshots[2].is_healthy

\* the GPU query of host is unavailable or fails
GpuQueryFails ==
    /\ ~host.raises
    /\ \/ host.gpu_query \in {"missing", "failed"}
       \/ \E k \in 1..Len(host.lines) :
              ~host.lines[k].parses \/ host.lines[k].total = 0

\* C19 as stated: when the GPU query is unavailable or fails, the snapshot
\* holds the CPU and memory readings and is healthy iff both are below 90.
C19_GpuFailureIgnored ==
    \A i \in 1..Len(snapshots) :
        GpuQueryFails =>
            /\ snapshots[i].metrics.cpu_percent = host.cpu
            /\ snapshots[i].metrics.memory_percent = host.mem
            /\ snapshots[i].is_healthy <=> (host.cpu < 90 /\ host.mem < 90)

\* C19: when the GPU query is unavailable or fails, the snapshot holds the
\* CPU and memory readings; it is healthy iff both are below 90 and no GPU
\* reading obtained before the failure is above 90 %, so with no reading
\* obtained the CPU and memory thresholds decide alone.
C19_GpuFailureKeepsParsed ==
    \A i \in 1..Len(snapshots) :
        GpuQueryFails =>
            LET m == snapshots[i].metrics
            IN  /\ m.cpu_percent = host.cpu
                /\ m.memory_percent = host.mem
                /\ snapshots[i].is_healthy <=>
                      (host.cpu < 90 /\ host.mem < 90 /\ NoGpuOver(m))
                /\ m.gpu_info = <<>> =>
                      (snapshots[i].is_healthy <=> (host.cpu < 90 /\ host.mem < 90))

\* nvidia-smi is missing, CPU is at 89 % and memory at 50 %: healthy, no GPU
\* reading
C19_Witness ==
    /\ Len(snapshots) >= 1
    /\ host.gpu_query = "missing"
    /\ host.cpu = 89
    /\ host.mem = 50
    /\ snapshots[1].is_healthy
    /\ snapshots[1].metrics.gpu_info = <<>>

\* C21: the levels attempted are start_concurrent, start_concurrent + 1, ...
\* one after the other, each once and none above max_concurrent; the loop
\* left at the end of the range has attempted every level; and all_results is
\* strictly increasing in concurrent_requests.
C21_LevelsConsecutive ==
    /\ \A j \in 1..Len(roundLog) :
           /\ roundLog[j].concurrent = start_concurrent + j - 1
           /\ roundLog[j].concurrent <= max_concurrent
    /\ \A i \in 1..Len(results) :
           /\ i > 1 => results[i - 1].concurrent_requests < results[i].concurrent_requests
           /\ \E j \in 1..Len(roundLog) :
                  roundLog[j].concurrent = results[i].concurrent_requests
    /\ stop = "exhausted" =>
           /\ concurrent > max_concurrent
           /\ Len(roundLog) = Max(0, max_concurrent - start_concurrent + 1)

\* the range of three levels was exhausted; the round in the middle had no
\* result, so that all_results holds the first and the third level
C21_Witness ==
    /\ stop = "exhausted"
    /\ Len(roundLog) = 3
    /\ roundLog[2].successes = 0
    /\ Len(results) = 2
    /\ results[2].concurrent_requests = results[1].concurrent_requests + 2

\* C22: the post-round health check follows a recorded round within both
\* thresholds; whatever it reads, the search goes on: it sleeps 30 s when the
\* reading is unhealthy and 5 s otherwise, then takes the next level without
\* having stopped.
C22_PostRoundCooldown ==
    [][/\ pc = "post_health" =>
              /\ PassesCheck(results[Len(results)])
              /\ pc' = "post_sleep"
              /\ cooldown' = (IF is_healthy' THEN 5 ELSE 30)
              /\ stop' = "none"
       /\ pc = "post_sleep" =>
              /\ pc' = "for"
              /\ concurrent' = concurrent + 1
              /\ stop' = "none"]_vars

\* an unhealthy post-round reading was slept off and the search stands at the
\* head of the loop with a level left to try
C22_Witness ==
    /\ pc = "for"
    /\ ~is_healthy
    /\ stop = "none"
    /\ roundLog # <<>>
    /\ roundLog[Len(roundLog)].cooled
    /\ concurrent <= max_concurrent

\* the tasks of the round in progress that went through the gate
PastGate == {p \in DOMAIN tasks : tasks[p].st # "waiting"}

\* C23: a round has total_requests tasks and sends one generate request per
\* task that went through the gate, never more than total_requests; when the
\* round has returned exactly total_requests requests were sent, whatever
\* number of them failed.
C23_OneRequestPerProbe ==
    /\ pc = "gather" =>
           /\ Len(tasks) = requests_per_test
           /\ roundLog[Len(roundLog)].sent = Cardinality(PastGate)
    /\ \A j \in 1..Len(roundLog) :
           /\ roundLog[j].sent <= requests_per_test
           /\ roundLog[j].successes <= roundLog[j].sent
           /\ j <= Handled => roundLog[j].sent = requests_per_test

\* a round of three probes through two slots returned None: all three
\* requests were sent although every one of them failed
C23_Witness ==
    /\ pc = "handle"
    /\ IsNone(result)
    /\ requests_per_test = 3
    /\ concurrent = 2
    /\ roundLog[Len(roundLog)].sent = 3
    /\ roundLog[Len(roundLog)].successes = 0

\* the aggregates of a Round Summary (None for a round without one)
Aggregates(r) ==
    IF IsNone(r) THEN <<>>
    ELSE <<r.success_rate, r.total_tokens, r.average_generation_time,
           r.average_total_time, r.average_tokens_per_second>>

\* C24: when a round returns, the aggregates of its result are those of the
\* summary of the same probe results taken in any other order.
C24_OrderIndependent ==
    [][(pc = "gather" /\ pc' = "handle") =>
          \A f \in Permutations(DOMAIN tasks) :
              Aggregates(Summarise([p \in DOMAIN tasks |-> tasks[f[p]].result],
                                   concurrent, requests_per_test,
                                   Rat(elapsed, TicksPerSecond)))
                  = Aggregates(result')]_vars

\* three probes went through two slots with three different outcomes, a fast
\* answer, a slow answer and a failure, and were summarised
C24_Witness ==
    /\ pc = "handle"
    /\ ~IsNone(result)
    /\ concurrent = 2
    /\ requests_per_test = 3
    /\ result.success_rate = <<2, 3>>
    /\ result.average_generation_time = <<3, 2>>
    /\ result.average_tokens_per_second = <<3, 4>>

\* C26: the search is never left through the check of line 325: a pre-round
\* stop for the load of the host goes through "not is_healthy", with the
\* 30 s sleep before the loop is left.
C26_EmergencyNeverTaken ==
    /\ stop # "emergency"
    /\ pc = "sleep_break" => (~is_healthy /\ cooldown = 30 /\ stop = "none")
    /\ stop = "unhealthy" => (~is_healthy /\ pc = "done")

\* after a recorded round, the pre-round gate of the next level found the
\* host unhealthy and the search returned after the sleep
C26_Witness ==
    /\ pc = "done"
    /\ stop = "unhealthy"
    /\ ~is_healthy
    /\ results # <<>>
    /\ concurrent <= max_concurrent

\* the recorded rounds within both thresholds
Passing == {i \in 1..Len(results) : PassesCheck(results[i])}

\* C27: when the search has returned, the best pair is 0 / 0, or it is the
\* level and throughput of a recorded round within both thresholds whose
\* throughput no such round exceeds, and no such round at a lower level has
\* the same throughput.
C27_BestIsMaximum ==
    pc = "done" =>
        \/ optimal_concurrent = 0 /\ max_throughput = Zero
        \/ \E i \in Passing :
               /\ results[i].concurrent_requests = optimal_concurrent
               /\ results[i].system_throughput = max_throughput
               /\ \A k \in Passing :
                      /\ ~Exceeds(results[k].system_throughput, max_throughput)
                      /\ results[k].system_throughput = max_throughput => k >= i

\* the search returned after three rounds within the thresholds: the second
\* tied with the first, the third was lower, and the first level is the best
C27_Witness ==
    /\ pc = "done"
    /\ Len(results) = 3
    /\ Passing = {1, 2, 3}
    /\ results[1].system_throughput = results[2].system_throughput
    /\ Exceeds(results[2].system_throughput, results[3].system_throughput)
    /\ optimal_concurrent = results[1].concurrent_requests
    /\ optimal_concurrent > 0

\* C28: when the search has returned, optimal_concurrent is 0 exactly when no
\* recorded round is within both thresholds.
C28_ZeroIffNonePassed ==
    pc = "done" => (optimal_concurrent = 0 <=> Passing = {})

\* C25: with every call returning, every round that was started returns,
\* find_max_concurrency returns, and it never attempts more than
\* max_concurrent - start_concurrent + 1 rounds.
C25_Terminates ==
    /\ [](Len(roundLog) <= Max(0, max_concurrent - start_concurrent + 1))
    /\ (pc = "gather") ~> (pc = "handle")
    /\ <>(pc = "done")

\* the search returned after as many rounds as the range has levels: two
\* rounds of one probe, of which the first had no result
C25_Witness ==
    /\ pc = "done"
    /\ stop = "exhausted"
    /\ start_concurrent = 1
    /\ max_concurrent = 2
    /\ Len(roundLog) = max_concurrent - start_concurrent + 1
    /\ roundLog[1].successes = 0
    /\ \A j \in 1..2 : roundLog[j].completed = requests_per_test

\* a generate request of a probe was sent and has neither returned nor been
\* abandoned
InFlight ==
    \/ baseline.st = "request"
    \/ \E p \in DOMAIN tasks : tasks[p].st = "request"

\* number of probes issued so far by the baseline and by the rounds
Issued ==
    baseline.i + (IF baseline.st \in {"request", "sleep", "cancelled"} THEN 1 ELSE 0)
        + ISum([j \in 1..Len(roundLog) |-> roundLog[j].sent])

\* C29: in main the unload request is sent once: the step that sends it is
\* taken when no unload was sent before and no probe is in flight, no step
\* after it issues a probe or puts one in flight, and main is left with
\* exactly one unload sent.
C29_UnloadLast ==
    [][/\ unload_calls' # unload_calls =>
              /\ unload_calls = 0
              /\ unload_calls' = 1
              /\ ~InFlight
              /\ ~InFlight'
       /\ unload_calls >= 1 => (Issued' = Issued /\ ~InFlight')
       /\ main_pc' = "exited" => unload_calls' = 1]_vars

\* main was interrupted during a round with a request sent and not answered,
\* and was left after one unload
C29_Witness ==
    /\ main_pc = "exited"
    /\ unload_calls = 1
    /\ raising
    /\ pc = "raised"
    /\ Len(baseline.results) = NumTests
    /\ Len(roundLog) >= 1
    /\ roundLog[Len(roundLog)].sent > roundLog[Len(roundLog)].completed

=============================================================================
